---- MODULE Spec2Model ----
(***************************************************************************)
(* ssh_manager.py: a command line manager for ~/.ssh/config.               *)
(*                                                                         *)
(* Every invocation of the program is one process: main parses argv and    *)
(* dispatches to one handler, the handler loads the file, checks, mutates  *)
(* the in-memory SshConfig at most once, saves and exits.  The file on     *)
(* disk is the only state shared between invocations.                      *)
(*                                                                         *)
(* The SshConfig object (package sshconf) is modelled by its two fields,   *)
(* lines_ (the ConfigLine list) and hosts_ (a Python set), and by the      *)
(* methods the handlers call on it: hosts, host, add, set, remove, write.  *)
(* Strings are TLA+ strings, the file is the list of its text lines.       *)
(* sshconf is a dependency, not part of this source tree: its methods are  *)
(* modelled as the package implements them (hosts_ is a set, write opens   *)
(* the file with mode "w" and writes the text in place).                   *)
(*                                                                         *)
(* Command line arguments range over plain tokens: non-empty strings with  *)
(* no blank and no '#'.                                                    *)
(***************************************************************************)
EXTENDS Integers, Sequences, FiniteSets, TLC

(* ------------------------------------------------------------------ *)
(* Bounds and input domains                                             *)
(* ------------------------------------------------------------------ *)

\* Number of add, edit and delete invocations explored in one run.
MaxMutations == 3

Procs == {1, 2}

\* Python's None, for ConfigLine fields and optional arguments.
None == "<None>"

Aliases == {"db1", "web"}
HostNames == {"db.example.com"}
Users == {"admin"}
Ports == {2222}
IdentityFiles == {None, "~/.ssh/id_db"}
Queries == {"db", "DB", "N/A"}
Fields == {"hostname", "user", "port", "identityfile"}
Values == {"2200"}
Answers == {"y", "Y", "n", "yes"}

(* ------------------------------------------------------------------ *)
(* String helpers (Python str methods used by the program)              *)
(* ------------------------------------------------------------------ *)

Char(s, i) == SubSeq(s, i, i)

UpperAlpha == "ABCDEFGHIJKLMNOPQRSTUVWXYZ"
LowerAlpha == "abcdefghijklmnopqrstuvwxyz"

\* str.lower() on one character.
LowerChar(c) ==
    IF \E i \in 1..26 : Char(UpperAlpha, i) = c
    THEN Char(LowerAlpha, CHOOSE i \in 1..26 : Char(UpperAlpha, i) = c)
    ELSE c

RECURSIVE Lower(_)
\* str.lower()
Lower(s) == IF Len(s) = 0 THEN "" ELSE LowerChar(Char(s, 1)) \o Lower(SubSeq(s, 2, Len(s)))

\* Python's `q in s` on two strings: literal substring containment.
Contains(q, s) ==
    \E i \in 0..(Len(s) - Len(q)) : SubSeq(s, i + 1, i + Len(q)) = q

Blanks == {" ", "\t"}

IsSpace(c) == c \in Blanks

RECURSIVE LStrip(_)
LStrip(s) == IF Len(s) > 0 /\ IsSpace(Char(s, 1)) THEN LStrip(SubSeq(s, 2, Len(s))) ELSE s

RECURSIVE RStrip(_)
RStrip(s) ==
    IF Len(s) > 0 /\ IsSpace(Char(s, Len(s))) THEN RStrip(SubSeq(s, 1, Len(s) - 1)) ELSE s

\* str.strip()
Strip(s) == LStrip(RStrip(s))

\* Index of the first character of s that is in the set C, 0 if none.
FirstIndex(s, C) ==
    LET I == {i \in 1..Len(s) : Char(s, i) \in C}
    IN IF I = {} THEN 0 ELSE CHOOSE i \in I : \A j \in I : i <= j

Digit(d) == Char("0123456789", d + 1)

RECURSIVE IntToStr(_)
\* "%s" % port for the int that argparse (type=int) produced.
IntToStr(n) ==
    IF n < 0 THEN "-" \o IntToStr(0 - n)
    ELSE IF n < 10 THEN Digit(n)
    ELSE IntToStr(n \div 10) \o Digit(n % 10)

(* ------------------------------------------------------------------ *)
(* SshConfig: parsing                                                   *)
(* ------------------------------------------------------------------ *)

\* A line split into [key, value] (two elements) or left whole (one):
\* the text up to a comment, stripped, split at its first blank.
KeyValue(line) ==
    LET h == FirstIndex(line, {"#"})
        upto_comment == Strip(IF h = 0 THEN line ELSE SubSeq(line, 1, h - 1))
        j == FirstIndex(upto_comment, Blanks)
    IN IF j = 0 THEN <<upto_comment>>
       ELSE <<SubSeq(upto_comment, 1, j - 1),
              LStrip(SubSeq(upto_comment, j + 1, Len(upto_comment)))>>

ConfigLine(line, host, key, value) ==
    [line |-> line, host |-> host, key |-> key, value |-> value]

RECURSIVE ParseFrom(_, _)
\* SshConfig.parse: every key/value line belongs to the last Host line seen;
\* other lines (blank, comment) belong to no host.
ParseFrom(lines, cur_entry) ==
    IF lines = <<>> THEN <<>>
    ELSE LET kv == KeyValue(Head(lines))
         IN IF Len(kv) > 1
            THEN LET cur == IF Lower(kv[1]) = "host" THEN kv[2] ELSE cur_entry
                 IN <<ConfigLine(Head(lines), cur, kv[1], kv[2])>>
                    \o ParseFrom(Tail(lines), cur)
            ELSE <<ConfigLine(Head(lines), None, None, None)>>
                 \o ParseFrom(Tail(lines), cur_entry)

\* SshConfig(lines): the line list and the set of host names.
SshConfig(lines) ==
    LET ls == ParseFrom(lines, None)
    IN [lines_ |-> ls,
        hosts_ |-> {ls[i].value : i \in {k \in 1..Len(ls) : Lower(ls[k].key) = "host"}}]

\* str.splitlines() of the file's content, given as the lines joined by "\n":
\* a content ending in a line break has no empty last line.
SplitLines(lines) ==
    IF lines # <<>> /\ lines[Len(lines)] = "" THEN SubSeq(lines, 1, Len(lines) - 1)
    ELSE lines

\* The file on disk: whether it exists, and its content as text lines
\* (the content is the lines joined by "\n").
Absent == [exists |-> FALSE, lines |-> <<>>]

\* load_ssh_config: an empty SshConfig when the file is absent.
ReadConfig(d) ==
    IF ~d.exists THEN SshConfig(<<>>) ELSE SshConfig(SplitLines(d.lines))

(* ------------------------------------------------------------------ *)
(* SshConfig: queries and mutations                                     *)
(* ------------------------------------------------------------------ *)

\* All orders in which the elements of a finite set can be listed.
Orders(S) ==
    {f \in [1..Cardinality(S) -> S] : \A i, j \in 1..Cardinality(S) : f[i] = f[j] => i = j}

\* config.hosts(): tuple(self.hosts_).  hosts_ is a set of strings, so the
\* order of the tuple is the set's iteration order, which varies with the
\* hash seed of the run: any order is a possible result.
hosts(cfg) == Orders(cfg.hosts_)

\* Indices of the lines of one host.
HostLines(cfg, h) == {i \in 1..Len(cfg.lines_) : cfg.lines_[i].host = h}

RECURSIVE ValuesOf(_, _, _)
\* The values of the lines of host h whose lowercased key is k, in file order.
ValuesOf(ls, h, k) ==
    IF ls = <<>> THEN <<>>
    ELSE (IF Head(ls).host = h /\ Lower(Head(ls).key) = k THEN <<Head(ls).value>> ELSE <<>>)
         \o ValuesOf(Tail(ls), h, k)

\* config.host(h): a dict from lowercased directive name to its values (the
\* program sees the single value when there is one, the list otherwise);
\* empty for an unknown host.
host(cfg, h) ==
    IF h \notin cfg.hosts_ THEN [k \in {} |-> <<>>]
    ELSE LET keys == {Lower(cfg.lines_[i].key) : i \in HostLines(cfg, h)} \ {"host"}
         IN [k \in keys |-> ValuesOf(cfg.lines_, h, k)]

\* dict.get(key, default) on a host's dict, flattened as host() flattens it.
Get(host_data, key, default) ==
    IF key \in DOMAIN host_data THEN host_data[key] ELSE <<default>>

\* `query in v` for a flattened value: substring of the only value, or
\* membership in the list of values.
QueryIn(query, v) ==
    IF Len(v) = 1 THEN Contains(query, v[1]) ELSE \E i \in 1..Len(v) : v[i] = query

\* The spelling sshconf writes for a known directive.
RemapKey(k) ==
    CASE Lower(k) = "hostname" -> "HostName"
      [] Lower(k) = "user" -> "User"
      [] Lower(k) = "port" -> "Port"
      [] Lower(k) = "identityfile" -> "IdentityFile"
      [] OTHER -> k

\* The text of a directive line.
NewLine(key, value) == "  " \o key \o " " \o value

RECURSIVE ParamLines(_, _)
ParamLines(h, params) ==
    IF params = <<>> THEN <<>>
    ELSE LET k == RemapKey(Head(params)[1])
             v == Head(params)[2]
         IN <<ConfigLine(NewLine(k, v), h, k, v)>> \o ParamLines(h, Tail(params))

\* config.add(host, **params): a blank line, the Host line, one line per
\* parameter in the order given, a blank line, all at the end of the file.
ConfigAdd(cfg, h, params) ==
    [lines_ |-> cfg.lines_
                \o <<ConfigLine("", None, None, None)>>
                \o <<ConfigLine("Host " \o h, h, "Host", h)>>
                \o ParamLines(h, params)
                \o <<ConfigLine("", None, None, None)>>,
     hosts_ |-> cfg.hosts_ \cup {h}]

Min(S) == CHOOSE x \in S : \A y \in S : x <= y
Max(S) == CHOOSE x \in S : \A y \in S : x >= y

\* The sequence without the elements at the indices in D.
RECURSIVE Without(_, _, _)
Without(ls, D, i) ==
    IF i > Len(ls) THEN <<>>
    ELSE (IF i \in D THEN <<>> ELSE <<ls[i]>>) \o Without(ls, D, i + 1)

\* config.set(host, key=value): the first line of the host with that key
\* (whatever its case) is rewritten keeping its spelling of the key, further
\* lines with the key are dropped; without such a line, a new one goes
\* right after the host's last line.
ConfigSet(cfg, h, key, value) ==
    LET ls == cfg.lines_
        update_idx == {i \in HostLines(cfg, h) : Lower(ls[i].key) = Lower(key)}
    IN IF update_idx # {}
       THEN LET first == Min(update_idx)
                upd == [ls EXCEPT ![first] =
                           ConfigLine(NewLine(ls[first].key, value), h, ls[first].key, value)]
            IN [cfg EXCEPT !.lines_ = Without(upd, update_idx \ {first}, 1)]
       ELSE LET max_idx == Max(HostLines(cfg, h))
                k == RemapKey(key)
            IN [cfg EXCEPT !.lines_ =
                   SubSeq(ls, 1, max_idx)
                   \o <<ConfigLine(NewLine(k, value), h, k, value)>>
                   \o SubSeq(ls, max_idx + 1, Len(ls))]

\* ConfigRemove dropping everything from the host's first line to the end.
ConfigRemove_to_end(cfg, h) ==
    [lines_ |-> SubSeq(cfg.lines_, 1, Min(HostLines(cfg, h)) - 1),
     hosts_ |-> cfg.hosts_ \ {h}]

\* config.remove(host): drops everything from the host's first line to its
\* last, comments in between included.
ConfigRemove(cfg, h) ==
    LET host_lines == HostLines(cfg, h)
    IN [lines_ |-> Without(cfg.lines_, Min(host_lines)..Max(host_lines), 1),
        hosts_ |-> cfg.hosts_ \ {h}]

\* config.config(): the text of the lines, to be joined by "\n".
ConfigText(cfg) == [i \in 1..Len(cfg.lines_) |-> cfg.lines_[i].line]

(* ------------------------------------------------------------------ *)
(* The file as bytes: two writers with their own file offsets           *)
(* ------------------------------------------------------------------ *)

RECURSIVE ByteLen(_)
\* Length of the lines joined by "\n".
ByteLen(lines) ==
    IF lines = <<>> THEN 0
    ELSE IF Len(lines) = 1 THEN Len(lines[1])
    ELSE Len(Head(lines)) + 1 + ByteLen(Tail(lines))

RECURSIVE DropBytes(_, _)
\* What is left of the joined lines after their first n bytes: <<>> when
\* nothing is left, else the rest of the line the cut falls in, then the
\* lines after it.
DropBytes(lines, n) ==
    IF lines = <<>> \/ n >= ByteLen(lines) THEN <<>>
    ELSE IF n <= Len(Head(lines))
         THEN <<SubSeq(Head(lines), n + 1, Len(Head(lines)))>> \o Tail(lines)
         ELSE DropBytes(Tail(lines), n - Len(Head(lines)) - 1)

\* write(2) of `new` at offset 0 into a file holding `old`: the bytes beyond
\* the end of `new` stay.
Overwrite(old, new) ==
    LET rest == DropBytes(old, ByteLen(new))
    IN IF rest = <<>> THEN new
       ELSE IF new = <<>> THEN rest
       ELSE SubSeq(new, 1, Len(new) - 1) \o <<new[Len(new)] \o Head(rest)>> \o Tail(rest)

(* ------------------------------------------------------------------ *)
(* State                                                                *)
(* ------------------------------------------------------------------ *)

VARIABLES
    disk,         \* ~/.ssh/config: [exists, lines]
    pc,           \* per invocation: idle, load, run, confirm, open, write, done
    argv,         \* per invocation: the parsed command line
    config,       \* per invocation: its SshConfig object
    results,      \* per invocation: the rows it prints
    exit_status,  \* per invocation: -1 while running, then 0 or 1
    answer,       \* per invocation: what the operator typed at the prompt
    asked,        \* history: the confirmation prompt was shown
    saves,        \* history: save_ssh_config calls of the invocation
    loaded,       \* history: the file as load_ssh_config found it
    last_writer,  \* history: the invocation whose write completed last (0: none)
    mutations     \* history: add, edit and delete invocations started so far

vars == <<disk, pc, argv, config, results, exit_status, answer, asked, saves, loaded,
          last_writer, mutations>>

NoArgs ==
    [command |-> None, host |-> None, hostname |-> None, user |-> None, port |-> 0,
     identity_file |-> None, verbose |-> FALSE, query |-> None, field |-> None,
     value |-> None]

Mutating == {"add", "edit", "delete"}

\* The command lines argparse accepts, over the input domains.
CommandLines ==
    {[NoArgs EXCEPT !.command = "add", !.host = h, !.hostname = n, !.user = u,
                    !.port = q, !.identity_file = i] :
        h \in Aliases, n \in HostNames, u \in Users, q \in Ports, i \in IdentityFiles}
    \cup {[NoArgs EXCEPT !.command = "list", !.verbose = v] : v \in BOOLEAN}
    \cup {[NoArgs EXCEPT !.command = "search", !.query = q] : q \in Queries}
    \cup {[NoArgs EXCEPT !.command = "show", !.host = h] : h \in Aliases}
    \cup {[NoArgs EXCEPT !.command = "edit", !.host = h, !.field = f, !.value = v] :
            h \in Aliases, f \in Fields, v \in Values}
    \cup {[NoArgs EXCEPT !.command = "delete", !.host = h] : h \in Aliases}

\* A file written by hand: a comment, one host without HostName, a key in
\* lower case, a comment inside the block, a final line break.
HandWritten ==
    [exists |-> TRUE,
     lines |-> <<"# managed by hand", "Host web", "  user deploy", "  # staging",
                 "  Port 22", "">>]

\* A file the program wrote: add db1, then add web.
TwoHosts ==
    [exists |-> TRUE,
     lines |-> ConfigText(
                 ConfigAdd(
                   ConfigAdd(SshConfig(<<>>), "db1",
                             <<<<"hostname", "10.0.0.5">>, <<"user", "admin">>,
                               <<"port", "22">>>>),
                   "web",
                   <<<<"hostname", "db.example.com">>, <<"user", "admin">>,
                     <<"port", "2222">>, <<"identityfile", "~/.ssh/id_db">>>>))]

Start(d) ==
    /\ disk = d
    /\ pc = [p \in Procs |-> "idle"]
    /\ argv = [p \in Procs |-> NoArgs]
    /\ config = [p \in Procs |-> SshConfig(<<>>)]
    /\ results = [p \in Procs |-> <<>>]
    /\ exit_status = [p \in Procs |-> -1]
    /\ answer = [p \in Procs |-> None]
    /\ asked = [p \in Procs |-> FALSE]
    /\ saves = [p \in Procs |-> 0]
    /\ loaded = [p \in Procs |-> Absent]
    /\ last_writer = 0
    /\ mutations = 0

Init == \E d \in {Absent, HandWritten} : Start(d)

RaceInit == \E d \in {Absent, HandWritten, TwoHosts} : Start(d)

(* ------------------------------------------------------------------ *)
(* Actions                                                              *)
(* ------------------------------------------------------------------ *)

\* The invocation ends with the given status.
Exit(p, status) ==
    /\ pc' = [pc EXCEPT ![p] = "done"]
    /\ exit_status' = [exit_status EXCEPT ![p] = status]

\* main: a new invocation parses its command line and dispatches.
main(p) ==
    /\ pc[p] \in {"idle", "done"}
    /\ \E a \in CommandLines :
        /\ a.command \in Mutating => mutations < MaxMutations
        /\ argv' = [argv EXCEPT ![p] = a]
        /\ mutations' = IF a.command \in Mutating THEN mutations + 1 ELSE mutations
    /\ pc' = [pc EXCEPT ![p] = "load"]
    /\ config' = [config EXCEPT ![p] = SshConfig(<<>>)]
    /\ results' = [results EXCEPT ![p] = <<>>]
    /\ exit_status' = [exit_status EXCEPT ![p] = -1]
    /\ answer' = [answer EXCEPT ![p] = None]
    /\ asked' = [asked EXCEPT ![p] = FALSE]
    /\ saves' = [saves EXCEPT ![p] = 0]
    /\ loaded' = [loaded EXCEPT ![p] = Absent]
    /\ UNCHANGED <<disk, last_writer>>

\* load_ssh_config, the first statement of every handler.
load_ssh_config(p) ==
    /\ pc[p] = "load"
    /\ config' = [config EXCEPT ![p] = ReadConfig(disk)]
    /\ loaded' = [loaded EXCEPT ![p] = disk]
    /\ pc' = [pc EXCEPT ![p] = "run"]
    /\ UNCHANGED <<disk, argv, results, exit_status, answer, asked, saves, last_writer, mutations>>

\* AddParams without the test of identity_file: the parameter is always passed.
AddParams_always_identity(a) ==
    <<<<"hostname", a.hostname>>, <<"user", a.user>>, <<"port", IntToStr(a.port)>>,
      <<"identityfile", IF a.identity_file = None THEN "None" ELSE a.identity_file>>>>

\* The parameters add_entry passes to config.add, in dict order.
AddParams(a) ==
    <<<<"hostname", a.hostname>>, <<"user", a.user>>, <<"port", IntToStr(a.port)>>>>
    \o (IF a.identity_file # None /\ a.identity_file # ""
        THEN <<<<"identityfile", a.identity_file>>>> ELSE <<>>)

\* add_entry without the sys.exit(1) of its duplicate branch: it goes on to add.
add_entry_no_exit(p) ==
    /\ pc[p] = "run" /\ argv[p].command = "add"
    /\ config' = [config EXCEPT ![p] = ConfigAdd(@, argv[p].host, AddParams(argv[p]))]
    /\ pc' = [pc EXCEPT ![p] = "open"]
    /\ UNCHANGED <<disk, argv, results, exit_status, answer, asked, saves, loaded,
                   last_writer, mutations>>

\* add_entry after its load: the duplicate check, then config.add.
add_entry(p) ==
    /\ pc[p] = "run" /\ argv[p].command = "add"
    /\ IF argv[p].host \in config[p].hosts_
       THEN /\ Exit(p, 1)
            /\ UNCHANGED config
       ELSE /\ config' = [config EXCEPT ![p] = ConfigAdd(@, argv[p].host, AddParams(argv[p]))]
            /\ pc' = [pc EXCEPT ![p] = "open"]
            /\ UNCHANGED exit_status
    /\ UNCHANGED <<disk, argv, results, answer, asked, saves, loaded, last_writer, mutations>>

\* One row of the list table.
ListRow(cfg, h, verbose) ==
    LET host_data == host(cfg, h)
    IN <<h, Get(host_data, "hostname", "N/A"), Get(host_data, "user", "N/A"),
         Get(host_data, "port", "N/A")>>
       \o (IF verbose THEN <<Get(host_data, "identityfile", "N/A")>> ELSE <<>>)

\* list_entries after its load: one row per host, in the order of hosts().
list_entries(p) ==
    /\ pc[p] = "run" /\ argv[p].command = "list"
    /\ \E hs \in hosts(config[p]) :
        results' = [results EXCEPT ![p] =
                       [i \in 1..Len(hs) |-> ListRow(config[p], hs[i], argv[p].verbose)]]
    /\ Exit(p, 0)
    /\ UNCHANGED <<disk, argv, config, answer, asked, saves, loaded, last_writer, mutations>>

\* The match test of search_entries.
Matches(cfg, query, h) ==
    Contains(query, h) \/ QueryIn(query, Get(host(cfg, h), "hostname", ""))

RECURSIVE Select(_, _, _)
\* The loop of search_entries over hosts().
Select(cfg, query, hs) ==
    IF hs = <<>> THEN <<>>
    ELSE (IF Matches(cfg, query, Head(hs)) THEN <<<<Head(hs), host(cfg, Head(hs))>>>> ELSE <<>>)
         \o Select(cfg, query, Tail(hs))

\* search_entries after its load.
search_entries(p) ==
    /\ pc[p] = "run" /\ argv[p].command = "search"
    /\ \E hs \in hosts(config[p]) :
        results' = [results EXCEPT ![p] = Select(config[p], argv[p].query, hs)]
    /\ Exit(p, 0)
    /\ UNCHANGED <<disk, argv, config, answer, asked, saves, loaded, last_writer, mutations>>

\* show_host after its load.
show_host(p) ==
    /\ pc[p] = "run" /\ argv[p].command = "show"
    /\ IF argv[p].host \notin config[p].hosts_
       THEN /\ Exit(p, 1)
            /\ UNCHANGED results
       ELSE /\ results' = [results EXCEPT ![p] =
                             <<<<argv[p].host, host(config[p], argv[p].host)>>>>]
            /\ Exit(p, 0)
    /\ UNCHANGED <<disk, argv, config, answer, asked, saves, loaded, last_writer, mutations>>

\* edit_entry replacing the host by one that has the edited field only.
edit_entry_readd(p) ==
    /\ pc[p] = "run" /\ argv[p].command = "edit"
    /\ IF argv[p].host \notin config[p].hosts_
       THEN /\ Exit(p, 1)
            /\ UNCHANGED config
       ELSE /\ config' = [config EXCEPT ![p] =
                            ConfigAdd(ConfigRemove(@, argv[p].host), argv[p].host,
                                      <<<<Lower(argv[p].field), argv[p].value>>>>)]
            /\ pc' = [pc EXCEPT ![p] = "open"]
            /\ UNCHANGED exit_status
    /\ UNCHANGED <<disk, argv, results, answer, asked, saves, loaded, last_writer, mutations>>

\* edit_entry after its load: the existence check, then config.set.
edit_entry(p) ==
    /\ pc[p] = "run" /\ argv[p].command = "edit"
    /\ IF argv[p].host \notin config[p].hosts_
       THEN /\ Exit(p, 1)
            /\ UNCHANGED config
       ELSE /\ config' = [config EXCEPT ![p] =
                            ConfigSet(@, argv[p].host, Lower(argv[p].field), argv[p].value)]
            /\ pc' = [pc EXCEPT ![p] = "open"]
            /\ UNCHANGED exit_status
    /\ UNCHANGED <<disk, argv, results, answer, asked, saves, loaded, last_writer, mutations>>

\* delete_entry prompting before it checks that the host exists.
delete_entry_prompt_first(p) ==
    /\ pc[p] = "run" /\ argv[p].command = "delete"
    /\ asked' = [asked EXCEPT ![p] = TRUE]
    /\ IF argv[p].host \notin config[p].hosts_
       THEN Exit(p, 1)
       ELSE /\ pc' = [pc EXCEPT ![p] = "confirm"]
            /\ UNCHANGED exit_status
    /\ UNCHANGED <<disk, argv, config, results, answer, saves, loaded, last_writer, mutations>>

\* delete_entry after its load: the existence check, then the prompt.
delete_entry(p) ==
    /\ pc[p] = "run" /\ argv[p].command = "delete"
    /\ IF argv[p].host \notin config[p].hosts_
       THEN /\ Exit(p, 1)
            /\ UNCHANGED asked
       ELSE /\ asked' = [asked EXCEPT ![p] = TRUE]
            /\ pc' = [pc EXCEPT ![p] = "confirm"]
            /\ UNCHANGED exit_status
    /\ UNCHANGED <<disk, argv, config, results, answer, saves, loaded, last_writer, mutations>>

\* delete_confirm with the test of the answer inverted.
delete_confirm_inverted(p) ==
    /\ pc[p] = "confirm"
    /\ \E confirm \in Answers :
        /\ answer' = [answer EXCEPT ![p] = confirm]
        /\ IF Lower(confirm) = "y"
           THEN /\ Exit(p, 0)
                /\ UNCHANGED config
           ELSE /\ config' = [config EXCEPT ![p] = ConfigRemove(@, argv[p].host)]
                /\ pc' = [pc EXCEPT ![p] = "open"]
                /\ UNCHANGED exit_status
    /\ UNCHANGED <<disk, argv, results, asked, saves, loaded, last_writer, mutations>>

\* delete_entry once the operator has typed an answer: cancel, or config.remove.
delete_confirm(p) ==
    /\ pc[p] = "confirm"
    /\ \E confirm \in Answers :
        /\ answer' = [answer EXCEPT ![p] = confirm]
        /\ IF Lower(confirm) # "y"
           THEN /\ Exit(p, 0)
                /\ UNCHANGED config
           ELSE /\ config' = [config EXCEPT ![p] = ConfigRemove(@, argv[p].host)]
                /\ pc' = [pc EXCEPT ![p] = "open"]
                /\ UNCHANGED exit_status
    /\ UNCHANGED <<disk, argv, results, asked, saves, loaded, last_writer, mutations>>

\* The content of a file holding the given lines joined by "\n".
Content(lines) == IF lines = <<"">> THEN <<>> ELSE lines

\* save_ssh_config, first half: open(path, "w") creates or truncates the file.
save_open(p) ==
    /\ pc[p] = "open"
    /\ disk' = [exists |-> TRUE, lines |-> <<>>]
    /\ saves' = [saves EXCEPT ![p] = @ + 1]
    /\ pc' = [pc EXCEPT ![p] = "write"]
    /\ UNCHANGED <<argv, config, results, exit_status, answer, asked, loaded, last_writer, mutations>>

\* save_ssh_config, second half: the text is written at the start of the file
\* when the file object is closed; the handler prints and the program ends.
save_ssh_config(p) ==
    /\ pc[p] = "write"
    /\ disk' = [exists |-> TRUE,
                lines |-> Content(Overwrite(disk.lines, Content(ConfigText(config[p]))))]
    /\ last_writer' = p
    /\ Exit(p, 0)
    /\ UNCHANGED <<argv, config, results, answer, asked, saves, loaded, mutations>>

Step(p) ==
    \/ load_ssh_config(p)
    \/ add_entry(p)
    \/ list_entries(p)
    \/ search_entries(p)
    \/ show_host(p)
    \/ edit_entry(p)
    \/ delete_entry(p)
    \/ delete_confirm(p)
    \/ save_open(p)
    \/ save_ssh_config(p)

\* One invocation at a time, each a complete load, mutate, save, exit.
Next == main(1) \/ Step(1)

Spec == Init /\ [][Next]_vars

\* Two invocations started once each, their steps interleaved.
race_main(p) == pc[p] = "idle" /\ main(p)

RaceNext == \E p \in Procs : race_main(p) \/ Step(p)

RaceSpec == RaceInit /\ [][RaceNext]_vars

(* ------------------------------------------------------------------ *)
(* The stored configuration as a document                               *)
(* ------------------------------------------------------------------ *)

RECURSIVE HostOrder(_)
\* The aliases of the Host lines, in file order, repeated if repeated.
HostOrder(ls) ==
    IF ls = <<>> THEN <<>>
    ELSE (IF Lower(Head(ls).key) = "host" THEN <<Head(ls).value>> ELSE <<>>)
         \o HostOrder(Tail(ls))

\* The host entries a file holds: alias and directives, in file order.
Document(d) ==
    LET cfg == ReadConfig(d)
        order == HostOrder(cfg.lines_)
    IN [i \in 1..Len(order) |-> [alias |-> order[i], directives |-> host(cfg, order[i])]]

AliasesOf(doc) == {doc[i].alias : i \in 1..Len(doc)}

EntryOf(doc, a) == doc[CHOOSE i \in 1..Len(doc) : doc[i].alias = a]

Done(p, command) == pc[p] = "done" /\ argv[p].command = command

\* The document without the entries of one alias.
RECURSIVE RemoveAlias(_, _)
RemoveAlias(doc, a) ==
    IF doc = <<>> THEN <<>>
    ELSE (IF Head(doc).alias = a THEN <<>> ELSE <<Head(doc)>>) \o RemoveAlias(Tail(doc), a)

\* The document with one directive of one alias set to a single value.
SetDirective(doc, a, field, value) ==
    [i \in 1..Len(doc) |->
        IF doc[i].alias # a THEN doc[i]
        ELSE [alias |-> a,
              directives |-> [k \in DOMAIN doc[i].directives \cup {field} |->
                                 IF k = field THEN <<value>> ELSE doc[i].directives[k]]]]

\* The decimal text of the port numbers in use.
PortText(n) == CASE n = 22 -> "22" [] n = 2222 -> "2222" [] n = 2200 -> "2200"

\* The entry an add command line asks for.
NewEntry(a) ==
    [alias |-> a.host,
     directives |->
        [k \in {"hostname", "user", "port"}
               \cup (IF a.identity_file = None THEN {} ELSE {"identityfile"}) |->
            CASE k = "hostname" -> <<a.hostname>>
              [] k = "user" -> <<a.user>>
              [] k = "port" -> <<PortText(a.port)>>
              [] k = "identityfile" -> <<a.identity_file>>]]

(* ------------------------------------------------------------------ *)
(* Claims, one invocation at a time (Spec)                              *)
(* ------------------------------------------------------------------ *)

\* C1: an add of an alias the stored configuration already has ends with
\* exit status 1, performs no save and leaves the file as it was.
C1_DuplicateAddFails ==
    \A p \in Procs :
        (Done(p, "add") /\ argv[p].host \in AliasesOf(Document(loaded[p])))
        => /\ exit_status[p] = 1
           /\ saves[p] = 0
           /\ disk = loaded[p]

C1_Witness ==
    \E p \in Procs :
        /\ Done(p, "add") /\ exit_status[p] = 1
        /\ argv[p].host \in AliasesOf(Document(disk))

\* C2: show, edit and delete of an alias the stored configuration does not
\* have end with exit status 1 and leave the file as it was; delete has not
\* prompted, edit has set nothing.
C2_MissingHostFails ==
    \A p \in Procs :
        (/\ pc[p] = "done"
         /\ argv[p].command \in {"show", "edit", "delete"}
         /\ argv[p].host \notin AliasesOf(Document(loaded[p])))
        => /\ exit_status[p] = 1
           /\ saves[p] = 0
           /\ disk = loaded[p]
           /\ ~asked[p] /\ answer[p] = None
           /\ config[p] = ReadConfig(loaded[p])
           /\ results[p] = <<>>

C2_Witness ==
    \E p \in Procs :
        /\ Done(p, "delete") /\ exit_status[p] = 1
        /\ Len(Document(disk)) = 1
        /\ argv[p].host \notin AliasesOf(Document(disk))

C4_DeleteNeedsConfirmation ==
    \A p \in Procs :
        argv[p].command = "delete"
        => /\ (saves[p] > 0 \/ (pc[p] # "load" /\ config[p] # ReadConfig(loaded[p])))
              => (asked[p] /\ answer[p] \in {"y", "Y"})
           /\ (pc[p] = "done" /\ asked[p] /\ answer[p] \notin {"y", "Y"})
              => /\ exit_status[p] = 0
                 /\ saves[p] = 0
                 /\ disk = loaded[p]
                 /\ argv[p].host \in AliasesOf(Document(disk))

C4_Witness ==
    \E p \in Procs :
        /\ Done(p, "delete") /\ asked[p] /\ answer[p] = "n"
        /\ exit_status[p] = 0

\* C5: after a confirmed delete of an existing alias, the stored hosts are the
\* previous ones without that alias, in the same order, directives unchanged.
C5_DeleteRemovesExactlyOne ==
    \A p \in Procs :
        (Done(p, "delete") /\ answer[p] \in {"y", "Y"})
        => /\ exit_status[p] = 0
           /\ Len(Document(disk)) = Len(Document(loaded[p])) - 1
           /\ Document(disk) = RemoveAlias(Document(loaded[p]), argv[p].host)

C5_Witness ==
    \E p \in Procs :
        /\ Done(p, "delete") /\ answer[p] \in {"y", "Y"}
        /\ Len(Document(loaded[p])) = 2
        /\ Document(loaded[p])[1].alias = argv[p].host

HostnameOf(e) ==
    IF "hostname" \in DOMAIN e.directives THEN e.directives["hostname"][1] ELSE ""

RECURSIVE MatchesInOrder(_, _)
\* The entries whose alias or hostname contains the query, in document order.
MatchesInOrder(doc, query) ==
    IF doc = <<>> THEN <<>>
    ELSE (IF Contains(query, Head(doc).alias) \/ Contains(query, HostnameOf(Head(doc)))
          THEN <<<<Head(doc).alias, Head(doc).directives>>>> ELSE <<>>)
         \o MatchesInOrder(Tail(doc), query)

\* C8: a search lists exactly the hosts whose alias or hostname contains the
\* query, in document order, and leaves the file as it was.
C8_SearchInDocumentOrder ==
    \A p \in Procs :
        Done(p, "search")
        => /\ results[p] = MatchesInOrder(Document(loaded[p]), argv[p].query)
           /\ disk = loaded[p]

(* ------------------------------------------------------------------ *)
(* Claims, two invocations racing (RaceSpec)                            *)
(* ------------------------------------------------------------------ *)

\* C9: a save never leaves the file in a state that is neither its content
\* before the save nor the saved content: the step that opens the file for
\* writing leaves the old content or puts the new one.
C9_SaveIsAtomic ==
    [][\A p \in Procs :
          (pc[p] = "open" /\ pc'[p] = "write")
          => \/ disk'.lines = disk.lines
             \/ disk'.lines = Content(ConfigText(config[p]))]_vars

\* The document a mutating command line makes of a document.
Mutated(doc, a) ==
    CASE a.command = "add" -> Append(doc, NewEntry(a))
      [] a.command = "edit" -> SetDirective(doc, a.host, a.field, a.value)
      [] a.command = "delete" -> RemoveAlias(doc, a.host)

\* C10: once the racing invocations have ended, the file holds the document
\* of the invocation that wrote last: what it loaded, with its one mutation.
C10_LastWriterWins ==
    ((\A p \in Procs : pc[p] \in {"idle", "done"}) /\ last_writer # 0)
    => Document(disk) = Mutated(Document(loaded[last_writer]), argv[last_writer])

====
